---- MODULE Spec2Model ----
(***************************************************************************)
(* Conversation orchestration of the Zen voice assistant: AIBrain          *)
(* (src/brain.py) as its drivers construct and call it, and the            *)
(* destructive executors of ZenTools (src/tools.py).                       *)
(***************************************************************************)
EXTENDS Integers, Sequences, FiniteSets, TLC

\* ------------------------------------------------------------ bounds ----
MaxM == 2
MaxCalls == 4      \* AIBrain calls (register_tool, finish_initialization,
                   \* get_response, clear_history)
MaxThreads == 2
MaxOsCalls == 2

\* ------------------------------------------------------ value domains ----
Drivers == {"main", "text_mode", "gui_window", "main_qt", "api", "tools",
            "wake_word"}
Providers == {"gemini", "openai", "ollama", "other"}
\* Text values are sequences of string pieces (an f-string is its pieces).
UserInputs == {<<"u1">>, <<"u2">>}
Texts == {<<"t1">>}
EmptyName == ""
ToolNames == {"echo", EmptyName}      \* names a caller passes to register_tool
RequestedNames == {"echo", "nope"}    \* names the model may ask for
ToolResults == {<<"r1">>}
ConfirmArgs == {"true", "false", "absent"}
Threads == 1..MaxThreads
MainThread == 1                       \* the thread that runs ZenAssistant.run
WakeThread == 2                       \* WakeWordDetector.thread of ZenAssistant
\* What SpeechListener.listen returns: nothing, an exit phrase, another
\* keyword command (open, time, search, system info), any other utterance.
Heard == {"none", "exit", "keyword", "utterance"}

\* AIBrain.chat_session: absent before _initialize_gemini; its history is the
\* context the remote side keeps.
NoSession == [open |-> FALSE, history |-> <<>>]
NewSession == [open |-> TRUE, history |-> <<>>]

SYSTEM_PROMPT == <<"SYSTEM_PROMPT">>
SystemMessage == [role |-> "system", content |-> SYSTEM_PROMPT]
UserMessage(u) == [role |-> "user", content |-> u]
AssistantMessage(c) == [role |-> "assistant", content |-> c]

FallbackText == <<"I'm having trouble processing that. Could you try again?">>
NoResponseText == <<"I apologize, I could not generate a response.">>
NotConfiguredText == <<"AI provider not configured.">>
FailedToolText(name) == <<"I failed to use the tool ", name, ".">>
UnknownToolText(name) == <<"I tried to use a tool named ", name, ", but I don't have it.">>

\* What the remote provider (and the requested executor) does in one call.
RaisingKinds == {"no_client", "raise", "malformed"}
GeminiResponses ==
    {[kind |-> "raise"], [kind |-> "malformed"], [kind |-> "empty"]}
    \cup {[kind |-> "text", text |-> x] : x \in Texts}
    \cup {[kind |-> "function_call", name |-> n, ex |-> e, result |-> r] :
              n \in RequestedNames, e \in {"return", "raise"}, r \in ToolResults}
ChatResponses ==
    {[kind |-> "raise"], [kind |-> "malformed"]}
    \cup {[kind |-> "text", text |-> x] : x \in Texts}

NoReply == [exc |-> FALSE, type |-> "none", content |-> <<>>]
NoRaw == [kind |-> "none"]
NoToolCall == [name |-> "none", confirm |-> "absent", result |-> <<>>, issued |-> <<>>]

VARIABLES
    driver,                \* who constructs and calls the objects
    provider,              \* AIBrain.provider (Config.AI_PROVIDER)
    pkg_ok,                \* provider package importable and client constructible
    api_key,               \* the selected provider's API key is set (Config.*_API_KEY)
    MAX_HISTORY_LENGTH,    \* Config.MAX_HISTORY_LENGTH
    wake_word_mode,        \* ZenAssistant.wake_word_mode
    running,               \* ZenAssistant.running
    detector_running,      \* WakeWordDetector.running
    main_pc,               \* position of the thread inside ZenAssistant.run
    wake_pc,               \* per thread: position of a wake-word detection thread
    heard,                 \* what the last listen of ZenAssistant returned
    gui,                   \* ZenAssistant.gui: "none", "started" or "stopped"
    conversation_history,  \* AIBrain.conversation_history
    tool_functions,        \* keys of AIBrain.tool_functions (= keys of tools)
    advertised,            \* tool names handed to the Gemini model (gemini_tools)
    client,                \* AIBrain.client is set
    chat_session,          \* context held by the remote Gemini chat session
    epoch,                 \* number of clear_history calls so far
    init_called,           \* number of finish_initialization calls so far
    turns,                 \* number of get_response calls so far
    pc,                    \* per thread: "idle" or "in_call" (inside get_response)
    user_input,            \* per thread: argument of the current/last call
    before,                \* per thread: history when the current call was entered
    payload,               \* per thread: messages handed to the chat provider's API
                           \* by the call in progress
    raw,                   \* per thread: provider behaviour of the last call
    reply,                 \* per thread: outcome of the last call
    spoken,                \* per thread: what the driver pushed to the user for it
    sends,                 \* per thread: provider send invocations of the last call
    executed,              \* per thread: tool executors invoked by the last call
    last_op,               \* last AIBrain operation completed
    raised,                \* last finish_initialization/clear_history raised
    recognized,            \* texts WorkerListen emitted (signal_text_recognized)
    ui_queue,              \* queued signal_text_recognized events of the UI thread
    brain_queue,           \* queued signal_user_input events of the brain thread
    emitted,               \* signals WorkerBrain emitted, in order
    os_system,             \* commands passed to os.system
    tool_call              \* last ZenTools destructive executor call

vars == <<driver, provider, pkg_ok, api_key, MAX_HISTORY_LENGTH,
          conversation_history, tool_functions, advertised, client,
          chat_session, epoch, init_called, turns,
          pc, user_input, before, payload, raw, reply, spoken, sends, executed,
          last_op,
          raised, os_system, tool_call, wake_word_mode, running,
          detector_running, main_pc, wake_pc, heard, gui, recognized, ui_queue,
          brain_queue, emitted>>

configVars == <<driver, provider, pkg_ok, api_key, MAX_HISTORY_LENGTH,
                wake_word_mode>>
qtVars == <<recognized, ui_queue, brain_queue, emitted>>
assistantVars == <<running, detector_running, main_pc, wake_pc, heard, gui>>
toolsVars == <<os_system, tool_call>>
threadVars == <<pc, user_input, before, payload, raw, reply, spoken, sends,
                executed>>
brainVars == <<conversation_history, tool_functions, advertised, client, chat_session,
               epoch, init_called, turns, last_op, raised>>

\* ----------------------------------------------------- pure helpers ----
\* Python h[-n:]
PySliceLast(h, n) ==
    IF n = 0 THEN h
    ELSE IF n > 0 THEN SubSeq(h, (IF Len(h) - n + 1 > 1 THEN Len(h) - n + 1 ELSE 1), Len(h))
    ELSE SubSeq(h, (0 - n) + 1, Len(h))

\* Variant: the system prompt is not re-attached; the most recent M + 1
\* messages are kept.
_trim_history_no_system(h, M) ==
    IF Len(h) > M + 1
    THEN PySliceLast(h, M + 1)
    ELSE h

_trim_history(h, M) ==
    IF Len(h) > M + 1
    THEN <<h[1]>> \o PySliceLast(h, M)
    ELSE h

Raise == [exc |-> TRUE, type |-> "exception", content |-> <<>>]
Return(ty, c) == [exc |-> FALSE, type |-> ty, content |-> c]

\* Variant: a failed send is retried once.
SendCallsRetry(rw, pr) ==
    IF rw.kind \in {"no_client", "not_configured"} THEN 0
    ELSE IF rw.kind = "raise" THEN 2
    ELSE 1

\* How often one get_response call invokes the provider's send
\* (brain.py:153, 191, 205): not at all when the session/client attribute is
\* missing or the provider is unknown, once otherwise.
SendCalls(rw, pr) ==
    IF rw.kind \in {"no_client", "not_configured"} THEN 0 ELSE 1

\* The executors one get_response call invokes (brain.py:164-171): the
\* requested tool's, when it is registered.
ExecutorCalls(rw, tf, pr) ==
    IF pr = "gemini" /\ rw.kind = "function_call" /\ rw.name \in tf
    THEN <<rw.name>>
    ELSE <<>>

\* Variant: an unregistered name is looked up without the membership test
\* (KeyError).
_get_gemini_response_unknown_raises(rw, tf) ==
    IF rw.kind \in RaisingKinds THEN Raise
    ELSE IF rw.kind = "empty" THEN Return("text", NoResponseText)
    ELSE IF rw.kind = "function_call"
         THEN IF rw.name \in tf
              THEN IF rw.ex = "return"
                   THEN Return("tool_call", rw.result)
                   ELSE Return("text", FailedToolText(rw.name))
              ELSE Raise
    ELSE Return("text", rw.text)

\* Variant: the executor's exception is not caught around the call.
_get_gemini_response_executor_propagates(rw, tf) ==
    IF rw.kind \in RaisingKinds THEN Raise
    ELSE IF rw.kind = "empty" THEN Return("text", NoResponseText)
    ELSE IF rw.kind = "function_call"
         THEN IF rw.name \in tf
              THEN IF rw.ex = "return"
                   THEN Return("tool_call", rw.result)
                   ELSE Raise
              ELSE Return("text", UnknownToolText(rw.name))
    ELSE Return("text", rw.text)

\* Variant: response.parts is indexed without the emptiness test (IndexError).
_get_gemini_response_no_parts_check(rw, tf) ==
    IF rw.kind \in RaisingKinds \cup {"empty"} THEN Raise
    ELSE IF rw.kind = "function_call"
         THEN IF rw.name \in tf
              THEN IF rw.ex = "return"
                   THEN Return("tool_call", rw.result)
                   ELSE Return("text", FailedToolText(rw.name))
              ELSE Return("text", UnknownToolText(rw.name))
    ELSE Return("text", rw.text)

\* Variant: a successful tool call is returned as a pure-text reply.
_get_gemini_response_tool_as_text(rw, tf) ==
    IF rw.kind \in RaisingKinds THEN Raise
    ELSE IF rw.kind = "empty" THEN Return("text", NoResponseText)
    ELSE IF rw.kind = "function_call"
         THEN IF rw.name \in tf
              THEN IF rw.ex = "return"
                   THEN Return("text", rw.result)
                   ELSE Return("text", FailedToolText(rw.name))
              ELSE Return("text", UnknownToolText(rw.name))
    ELSE Return("text", rw.text)

_get_gemini_response(rw, tf) ==
    IF rw.kind \in RaisingKinds THEN Raise
    ELSE IF rw.kind = "empty" THEN Return("text", NoResponseText)
    ELSE IF rw.kind = "function_call"
         THEN IF rw.name \in tf
              THEN IF rw.ex = "return"
                   THEN Return("tool_call", rw.result)
                   ELSE Return("text", FailedToolText(rw.name))
              ELSE Return("text", UnknownToolText(rw.name))
    ELSE Return("text", rw.text)

_get_openai_response(rw) ==
    IF rw.kind \in RaisingKinds THEN Raise ELSE Return("text", rw.text)

_get_ollama_response(rw) ==
    IF rw.kind \in RaisingKinds THEN Raise ELSE Return("text", rw.text)

\* _get_openai_response lines 188-189: every stored message as a role+content pair
openai_messages(h) ==
    [i \in 1..Len(h) |-> [role |-> h[i].role, content |-> h[i].content]]

\* Variant: the system message is sent to the local model as well.
ollama_messages_with_system(h) ==
    [i \in 1..Len(h) |-> [role |-> h[i].role, content |-> h[i].content]]

\* _get_ollama_response lines 202-203: the same without system-role messages
ollama_messages(h) ==
    LET kept == SelectSeq(h, LAMBDA msg : msg.role # "system")
    IN  [i \in 1..Len(kept) |-> [role |-> kept[i].role, content |-> kept[i].content]]

\* The messages argument a chat provider's API receives (brain.py:191-194,
\* 205); nothing is handed over when self.client is None (AttributeError)
\* and the Gemini session is sent the user text only (153).
ProviderMessages(h, pr, cl) ==
    IF pr = "openai" /\ cl THEN openai_messages(h)
    ELSE IF pr = "ollama" /\ cl THEN ollama_messages(h)
    ELSE <<>>

\* The provider dispatch of get_response, lines 129-136
Dispatch(rw, tf, pr) ==
    IF pr = "gemini" THEN _get_gemini_response(rw, tf)
    ELSE IF pr = "openai" THEN _get_openai_response(rw)
    ELSE IF pr = "ollama" THEN _get_ollama_response(rw)
    ELSE Return("text", NotConfiguredText)

\* Variant: only replies that carry the provider's own final text are
\* persisted (tool apologies are dropped).
TryBlockDropApology(h, rw, tf, pr, M) ==
    LET response == Dispatch(rw, tf, pr)
    IN  IF response.exc
        THEN [response |-> response, history |-> h]
        ELSE [response |-> response,
              history |-> _trim_history(
                  IF response.type = "text" /\ rw.kind # "function_call"
                  THEN Append(h, AssistantMessage(response.content))
                  ELSE h, M)]

\* Variant: the assistant message is inserted before the user message.
TryBlockSwapped(h, rw, tf, pr, M) ==
    LET response == Dispatch(rw, tf, pr)
    IN  IF response.exc
        THEN [response |-> response, history |-> h]
        ELSE [response |-> response,
              history |-> _trim_history(
                  IF response.type = "text"
                  THEN SubSeq(h, 1, Len(h) - 1)
                           \o <<AssistantMessage(response.content), h[Len(h)]>>
                  ELSE h, M)]

\* get_response lines 128-143: the body of the try block; h already holds
\* the user message.
TryBlock(h, rw, tf, pr, M) ==
    LET response == Dispatch(rw, tf, pr)
    IN  IF response.exc
        THEN [response |-> response, history |-> h]
        ELSE [response |-> response,
              history |-> _trim_history(
                  IF response.type = "text"
                  THEN Append(h, AssistantMessage(response.content))
                  ELSE h, M)]

\* Variant: the fallback text is persisted as an assistant message.
ExceptHandlerAppends(h) ==
    [response |-> Return("text", FallbackText),
     history |-> Append(h, AssistantMessage(FallbackText))]

\* get_response lines 145-147
ExceptHandler(h) ==
    [response |-> Return("text", FallbackText), history |-> h]

\* Variant: no except clause, the exception leaves get_response.
get_response_propagating(h, rw, tf, pr, M) ==
    TryBlock(h, rw, tf, pr, M)

get_response(h, rw, tf, pr, M) ==
    LET t == TryBlock(h, rw, tf, pr, M)
    IN  IF t.response.exc THEN ExceptHandler(t.history) ELSE t

\* Variant: only the local history is truncated, the remote session is kept.
clear_history_local_only(h, cs, cl, pr, ok) ==
    [history |-> IF h # <<>> THEN <<h[1]>> ELSE <<>>,
     chat_session |-> cs, client |-> cl, raised |-> FALSE]

\* Variant: the history is emptied, the system prompt is not kept.
clear_history_drop_all(h, cs, cl, pr, ok) ==
    IF pr = "gemini"
    THEN IF ok
         THEN [history |-> <<>>, chat_session |-> NewSession,
               client |-> TRUE, raised |-> FALSE]
         ELSE [history |-> <<>>, chat_session |-> cs,
               client |-> cl, raised |-> TRUE]
    ELSE [history |-> <<>>, chat_session |-> cs,
          client |-> cl, raised |-> FALSE]

\* clear_history lines 216-222 (with _initialize_gemini lines 60-82)
clear_history(h, cs, cl, pr, ok) ==
    LET truncated == IF h # <<>> THEN <<h[1]>> ELSE <<>>
    IN  IF pr = "gemini"
        THEN IF ok
             THEN [history |-> truncated, chat_session |-> NewSession,
                   client |-> TRUE, raised |-> FALSE]
             ELSE [history |-> truncated, chat_session |-> cs,
                   client |-> cl, raised |-> TRUE]
        ELSE [history |-> truncated, chat_session |-> cs,
              client |-> cl, raised |-> FALSE]

\* Parameter binding of `confirm: bool = True`
BindConfirm(a) == IF a = "absent" THEN TRUE ELSE a = "true"

shutdown_system(a) ==
    IF ~BindConfirm(a)
    THEN [result |-> <<"Shutdown cancelled.">>, issued |-> <<>>]
    ELSE [result |-> <<"Shutting down in 30 seconds. To cancel, run: shutdown /a">>,
          issued |-> <<"shutdown /s /t 30">>]

restart_system(a) ==
    IF ~BindConfirm(a)
    THEN [result |-> <<"Restart cancelled.">>, issued |-> <<>>]
    ELSE [result |-> <<"Restarting in 30 seconds. To cancel, run: shutdown /a">>,
          issued |-> <<"shutdown /r /t 30">>]

\* _initialize_provider lines 30-48: raises for an unsupported provider and
\* when the provider's package or client is unavailable
InitSucceeds(pr, ok) == pr \in {"gemini", "openai", "ollama"} /\ ok

\* _initialize_gemini lines 67-73: the tool list given to GenerativeModel
gemini_tools(tf) == tf

\* Config.validate_config
validate_config(pr, key) ==
    (IF pr \notin {"openai", "gemini", "ollama"} THEN {"Invalid AI_PROVIDER"} ELSE {})
    \cup (IF pr = "openai" /\ ~key THEN {"OPENAI_API_KEY is required when using OpenAI"} ELSE {})
    \cup (IF pr = "gemini" /\ ~key THEN {"GEMINI_API_KEY is required when using Gemini"} ELSE {})

\* ------------------------------------------------------------- Init ----
Init ==
    /\ driver \in Drivers
    /\ provider \in Providers
    /\ pkg_ok \in BOOLEAN
    /\ api_key \in BOOLEAN
    /\ MAX_HISTORY_LENGTH \in 0..MaxM
    /\ wake_word_mode \in (IF driver = "main" THEN BOOLEAN ELSE {FALSE})
    /\ running = FALSE
    /\ detector_running = FALSE
    /\ main_pc = "new"
    /\ wake_pc = [t \in Threads |-> "off"]
    /\ heard = "none"
    /\ gui \in (IF driver = "main" THEN {"none", "started"} ELSE {"none"})
    /\ recognized = <<>>
    /\ ui_queue = <<>>
    /\ brain_queue = <<>>
    /\ emitted = <<>>
    /\ conversation_history = <<>>
    /\ tool_functions = {}
    /\ advertised = {}
    /\ client = FALSE
    /\ chat_session = NoSession
    /\ epoch = 0
    /\ init_called = 0
    /\ turns = 0
    /\ pc = [t \in Threads |-> "idle"]
    /\ user_input = [t \in Threads |-> <<>>]
    /\ before = [t \in Threads |-> <<>>]
    /\ payload = [t \in Threads |-> <<>>]
    /\ raw = [t \in Threads |-> NoRaw]
    /\ reply = [t \in Threads |-> NoReply]
    /\ spoken = [t \in Threads |-> <<>>]
    /\ sends = [t \in Threads |-> 0]
    /\ executed = [t \in Threads |-> <<>>]
    /\ last_op = "init"
    /\ raised = FALSE
    /\ os_system = <<>>
    /\ tool_call = NoToolCall

\* ---------------------------------------------------------- actions ----
BrainDrivers == Drivers \ {"tools", "wake_word"}

\* main() returns before constructing ZenAssistant when validate_config
\* reports errors (main.py:349-356); no other entry point validates.
Started == driver = "main" => validate_config(provider, api_key) = {}

Calls == turns + init_called + epoch + Cardinality(tool_functions)
AllIdle == \A t \in Threads : pc[t] = "idle"

\* AIBrain.register_tool
RegisterTool(name) ==
    /\ driver = "api"
    /\ AllIdle
    /\ Calls < MaxCalls
    /\ tool_functions' = tool_functions \cup {name}
    /\ last_op' = "register_tool"
    /\ raised' = FALSE
    /\ UNCHANGED <<conversation_history, advertised, client, chat_session,
                   epoch, init_called, turns>>
    /\ UNCHANGED <<qtVars, configVars, threadVars, toolsVars, assistantVars>>

\* AIBrain.finish_initialization -> _initialize_provider; WorkerBrain.__init__
\* calls it once (and swallows its exception), the other front ends never do.
FinishInitialization ==
    /\ \/ driver = "main_qt" /\ init_called = 0
       \/ driver = "api" /\ Calls < MaxCalls
    /\ AllIdle
    /\ init_called' = init_called + 1
    /\ last_op' = "finish_initialization"
    /\ IF InitSucceeds(provider, pkg_ok)
       THEN /\ client' = TRUE
            /\ chat_session' = IF provider = "gemini" THEN NewSession ELSE chat_session
            /\ advertised' = IF provider = "gemini" THEN gemini_tools(tool_functions)
                              ELSE advertised
            /\ conversation_history' = Append(conversation_history, SystemMessage)
            /\ raised' = FALSE
       ELSE /\ raised' = TRUE
            /\ UNCHANGED <<client, chat_session, advertised, conversation_history>>
    /\ UNCHANGED <<tool_functions, epoch, turns>>
    /\ UNCHANGED <<qtVars, configVars, threadVars, toolsVars, assistantVars>>

\* What the provider call of this AIBrain can do, given how far it was set up
\* (a remote provider rejects every request made without an API key).
PossibleResponses ==
    IF provider \in {"gemini", "openai"} /\ ~api_key
    THEN {IF (provider = "gemini" /\ chat_session.open) \/ (provider = "openai" /\ client)
          THEN [kind |-> "raise"] ELSE [kind |-> "no_client"]}
    ELSE IF provider = "gemini"
    THEN IF ~chat_session.open THEN {[kind |-> "no_client"]}
         ELSE {rw \in GeminiResponses :
                  \* the executor's behaviour exists only if one is invoked
                  rw.kind = "function_call" /\ rw.name \notin tool_functions
                      => rw.ex = "return"}
    ELSE IF provider \in {"openai", "ollama"}
    THEN IF client THEN ChatResponses ELSE {[kind |-> "no_client"]}
    ELSE {[kind |-> "not_configured"]}

\* What the caller of get_response pushes to the user (speech and/or display):
\*  main.py process_input 189-194 and core/worker_brain.py 30-33 push both
\*  reply types; text_mode.py 92-94 and gui_window.py 228-232 only test for
\*  type "text"; a direct caller of AIBrain has no user.
Surface(d, response) ==
    IF d \in {"main", "main_qt"} THEN <<response.content>>
    ELSE IF d \in {"text_mode", "gui_window"}
    THEN IF response.type = "text" THEN <<response.content>> ELSE <<>>
    ELSE <<>>

\* Variant: the most recently queued event is delivered first.
DequeueNewest(q) ==
    [event |-> q[Len(q)], rest |-> SubSeq(q, 1, Len(q) - 1)]

\* Delivery of a queued signal (the connections of main_qt.py:64, 68 cross
\* threads): the receiver's event loop takes the oldest queued event.
Dequeue(q) == [event |-> Head(q), rest |-> Tail(q)]

\* Variant: a fallback reply is reported through signal_error as well.
process_text_fallback_as_error(text, response) ==
    IF response.exc
    THEN <<[signal |-> "signal_error", input |-> text, text |-> <<"Brain Error">>]>>
    ELSE <<[signal |-> "signal_response_ready", input |-> text,
            text |-> response.content]>>
         \o (IF response.content = FallbackText
             THEN <<[signal |-> "signal_error", input |-> text,
                     text |-> <<"Brain Error">>]>>
             ELSE <<>>)

\* WorkerBrain.process_text lines 26-38: the signals emitted for one text
process_text(text, response) ==
    IF response.exc
    THEN <<[signal |-> "signal_error", input |-> text, text |-> <<"Brain Error">>]>>
    ELSE IF response.type \in {"text", "tool_call"}
    THEN <<[signal |-> "signal_response_ready", input |-> text,
            text |-> response.content]>>
    ELSE <<>>

\* Which thread may enter get_response now.
\*  main.py: the thread that got an utterance from listen (process_input:180)
\*  gui_window.py: a fresh thread per message (254-255); worker threads are
\*    interchangeable, the lowest idle one takes the message
\*  text_mode.py, main_qt.py (one WorkerBrain thread), api: one caller
CallerReady(t) ==
    IF driver = "main"
    THEN \/ t = MainThread /\ main_pc = "heard"
         \/ t = WakeThread /\ wake_pc[t] = "heard"
    ELSE IF driver = "gui_window"
    THEN \A t2 \in Threads : t2 < t => pc[t2] # "idle"
    ELSE IF driver = "main_qt"
    THEN t = 1 /\ AllIdle /\ brain_queue # <<>>
    ELSE t = 1 /\ AllIdle

\* get_response line 126, up to the blocking provider call
GetResponseCall(t, u) ==
    /\ driver \in BrainDrivers
    /\ Started
    /\ driver = "main_qt" => init_called > 0
    /\ pc[t] = "idle"
    /\ CallerReady(t)
    /\ Calls < MaxCalls
    \* get_response never inspects the text: the first utterance is named u1
    /\ turns = 0 => u = <<"u1">>
    \* WorkerBrain.process_text is delivered the next queued text
    /\ IF driver = "main_qt"
       THEN /\ u = Dequeue(brain_queue).event
            /\ brain_queue' = Dequeue(brain_queue).rest
       ELSE UNCHANGED brain_queue
    /\ UNCHANGED <<recognized, ui_queue, emitted>>
    /\ turns' = turns + 1
    /\ conversation_history' = Append(conversation_history, UserMessage(u))
    /\ pc' = [pc EXCEPT ![t] = "in_call"]
    /\ user_input' = [user_input EXCEPT ![t] = u]
    /\ before' = [before EXCEPT ![t] = conversation_history]
    /\ payload' = [payload EXCEPT ![t] =
                       ProviderMessages(conversation_history', provider, client)]
    /\ raw' = [raw EXCEPT ![t] = NoRaw]
    /\ reply' = [reply EXCEPT ![t] = NoReply]
    /\ spoken' = [spoken EXCEPT ![t] = <<>>]
    /\ sends' = [sends EXCEPT ![t] = 0]
    /\ executed' = [executed EXCEPT ![t] = <<>>]
    /\ main_pc' = IF driver = "main" /\ t = MainThread THEN "in_call" ELSE main_pc
    /\ wake_pc' = IF driver = "main" /\ t = WakeThread
                   THEN [wake_pc EXCEPT ![t] = "in_call"] ELSE wake_pc
    /\ UNCHANGED <<tool_functions, advertised, client, chat_session, epoch,
                   init_called, last_op, raised>>
    /\ UNCHANGED <<configVars, toolsVars, running, detector_running, heard, gui>>

\* get_response lines 128-147: provider round trip, tool dispatch, history
\* update, trim, return
GetResponseReturn(t, rw) ==
    /\ pc[t] = "in_call"
    /\ rw \in PossibleResponses
    /\ LET r == get_response(conversation_history, rw, tool_functions,
                             provider, MAX_HISTORY_LENGTH)
       IN  /\ conversation_history' = r.history
           /\ reply' = [reply EXCEPT ![t] = r.response]
           /\ spoken' = [spoken EXCEPT ![t] = Surface(driver, r.response)]
           /\ emitted' = IF driver = "main_qt"
                         THEN emitted \o process_text(user_input[t], r.response)
                         ELSE emitted
    /\ UNCHANGED <<recognized, ui_queue, brain_queue>>
    /\ chat_session' =
         IF provider = "gemini" /\ rw.kind \notin {"no_client", "raise"}
         THEN [chat_session EXCEPT !.history =
                  Append(@, [text |-> user_input[t], epoch |-> epoch])]
         ELSE chat_session
    /\ raw' = [raw EXCEPT ![t] = rw]
    /\ sends' = [sends EXCEPT ![t] = SendCalls(rw, provider)]
    /\ executed' = [executed EXCEPT ![t] = ExecutorCalls(rw, tool_functions, provider)]
    /\ pc' = [pc EXCEPT ![t] = "idle"]
    /\ last_op' = "get_response"
    /\ raised' = FALSE
    /\ before' = [before EXCEPT ![t] = <<>>]
    /\ payload' = [payload EXCEPT ![t] = <<>>]
    \* process_input returns to the loop that called it
    /\ main_pc' = IF driver = "main" /\ t = MainThread THEN "loop" ELSE main_pc
    /\ wake_pc' = IF driver = "main" /\ t = WakeThread
                   THEN [wake_pc EXCEPT ![t] = "detect"] ELSE wake_pc
    /\ UNCHANGED <<tool_functions, advertised, client, epoch, init_called,
                   turns, user_input>>
    /\ UNCHANGED <<configVars, toolsVars, running, detector_running, heard, gui>>

\* AIBrain.clear_history
ClearHistory ==
    /\ driver = "api"
    /\ AllIdle
    /\ Calls < MaxCalls
    /\ epoch' = epoch + 1
    /\ last_op' = "clear_history"
    /\ LET r == clear_history(conversation_history, chat_session, client,
                              provider, pkg_ok)
       IN  /\ conversation_history' = r.history
           /\ chat_session' = r.chat_session
           /\ client' = r.client
           /\ raised' = r.raised
           /\ advertised' = IF provider = "gemini" /\ ~r.raised
                             THEN gemini_tools(tool_functions) ELSE advertised
    /\ UNCHANGED <<tool_functions, init_called, turns>>
    /\ UNCHANGED <<qtVars, configVars, threadVars, toolsVars, assistantVars>>

\* ZenTools.shutdown_system
ShutdownSystem(a) ==
    /\ driver = "tools"
    /\ Len(os_system) < MaxOsCalls
    /\ LET r == shutdown_system(a)
       IN  /\ os_system' = os_system \o r.issued
           /\ tool_call' = [name |-> "shutdown_system", confirm |-> a,
                            result |-> r.result, issued |-> r.issued]
    /\ UNCHANGED <<qtVars, configVars, threadVars, brainVars, assistantVars>>

\* ZenTools.restart_system
RestartSystem(a) ==
    /\ driver = "tools"
    /\ Len(os_system) < MaxOsCalls
    /\ LET r == restart_system(a)
       IN  /\ os_system' = os_system \o r.issued
           /\ tool_call' = [name |-> "restart_system", confirm |-> a,
                            result |-> r.result, issued |-> r.issued]
    /\ UNCHANGED <<qtVars, configVars, threadVars, brainVars, assistantVars>>

\* WorkerListen.run lines 24-41: one round that recognises a text and emits
\* signal_text_recognized (the worker is started after WorkerBrain was built)
Recognize(u) ==
    /\ driver = "main_qt"
    /\ init_called > 0
    /\ init_called + Len(recognized) < MaxCalls
    /\ recognized = <<>> => u = <<"u1">>
    /\ recognized' = Append(recognized, u)
    /\ ui_queue' = Append(ui_queue, u)
    /\ UNCHANGED <<brain_queue, emitted>>
    /\ UNCHANGED <<configVars, threadVars, toolsVars, brainVars, assistantVars>>

\* ModernZenWindow.on_speech_recognized on the UI thread: shows the text and
\* emits signal_user_input
OnSpeechRecognized ==
    /\ driver = "main_qt"
    /\ ui_queue # <<>>
    /\ ui_queue' = Dequeue(ui_queue).rest
    /\ brain_queue' = Append(brain_queue, Dequeue(ui_queue).event)
    /\ UNCHANGED <<recognized, emitted>>
    /\ UNCHANGED <<configVars, threadVars, toolsVars, brainVars, assistantVars>>

\* Variant: a handled keyword command is still passed on to the AI brain.
_check_keyword_commands_falls_through(h, r) ==
    IF h = "exit" THEN [handled |-> TRUE, running |-> FALSE]
    ELSE [handled |-> FALSE, running |-> r]

\* ZenAssistant._check_keyword_commands: whether the text was handled as a
\* direct command, and ZenAssistant.running afterwards
_check_keyword_commands(h, r) ==
    IF h = "exit" THEN [handled |-> TRUE, running |-> FALSE]
    ELSE IF h = "keyword" THEN [handled |-> TRUE, running |-> r]
    ELSE [handled |-> FALSE, running |-> r]

\* Variant: stop() leaves the running flag of the detector set.
detector_stop_keeps_flag(r) == r

\* WakeWordDetector.stop: the running flag afterwards
detector_stop(r) == FALSE

\* ZenAssistant.run lines 317-319 with ZenGUI.stop
gui_stop(g) == IF g = "started" THEN "stopped" ELSE g

\* ZenAssistant.run lines 268-287: the branch taken after the greeting.
\* Variant: the continuous-listening loop is entered in wake-word mode too.
run_mode_always_loop(wwm) == "loop"

run_mode(wwm) == IF wwm THEN "sleep" ELSE "loop"

\* ZenAssistant.run up to the loop; in wake-word mode WakeWordDetector.start
\* (KeyboardInterrupt is not an input of this model)
Run ==
    /\ driver = "main"
    /\ Started
    /\ main_pc = "new"
    /\ running' = TRUE
    /\ main_pc' = run_mode(wake_word_mode)
    /\ detector_running' = wake_word_mode
    /\ wake_pc' = IF wake_word_mode
                   THEN [wake_pc EXCEPT ![WakeThread] = "detect"] ELSE wake_pc
    /\ UNCHANGED <<heard, gui>>
    /\ UNCHANGED <<qtVars, configVars, threadVars, toolsVars, brainVars>>

\* ZenAssistant.run lines 287-315: `while self.running` of the normal loop,
\* entering listener.listen or leaving the loop
MainLoop ==
    /\ main_pc = "loop"
    /\ main_pc' = IF running THEN "listen" ELSE "done"
    \* Cleanup, lines 317-319
    /\ gui' = IF running THEN gui ELSE gui_stop(gui)
    /\ UNCHANGED <<running, detector_running, wake_pc, heard>>
    /\ UNCHANGED <<qtVars, configVars, threadVars, toolsVars, brainVars>>

\* listener.listen returns; with a text, process_input up to the decision
\* of _check_keyword_commands (lines 169-176)
ListenReturns(who, h) ==
    /\ driver = "main"
    /\ LET k == _check_keyword_commands(h, running)
           toBrain == h # "none" /\ ~k.handled
       IN  /\ toBrain => Calls < MaxCalls
           /\ running' = IF h = "none" THEN running ELSE k.running
           /\ \/ /\ who = MainThread
                 /\ main_pc = "listen"
                 /\ main_pc' = IF toBrain THEN "heard" ELSE "loop"
                 /\ UNCHANGED wake_pc
              \/ /\ who = WakeThread
                 /\ wake_pc[who] = "listen"
                 /\ wake_pc' = [wake_pc EXCEPT ![who] =
                                    IF toBrain THEN "heard" ELSE "detect"]
                 /\ UNCHANGED main_pc
    /\ heard' = h
    /\ UNCHANGED <<detector_running, gui>>
    /\ UNCHANGED <<qtVars, configVars, threadVars, toolsVars, brainVars>>

\* ZenAssistant.run lines 273-284: the wake-word branch sleeps while running,
\* then WakeWordDetector.stop (join with a 2 s timeout) and cleanup
MainSleepExit ==
    /\ main_pc = "sleep"
    /\ ~running
    /\ detector_running' = detector_stop(detector_running)
    /\ gui' = gui_stop(gui)
    /\ main_pc' = "done"
    /\ UNCHANGED <<running, wake_pc, heard>>
    /\ UNCHANGED <<qtVars, configVars, threadVars, toolsVars, brainVars>>

\* _detect_with_speech_recognition (_detect_with_porcupine): the test of
\* `while self.running`; the body blocks in listen and, when the wake word is
\* heard, in the callback (_on_wake_word -> _process_single_command listens)
DetectorLoop(t) ==
    /\ wake_pc[t] = "detect"
    /\ wake_pc' = [wake_pc EXCEPT ![t] =
                       IF detector_running THEN "listen" ELSE "ended"]
    /\ UNCHANGED <<running, detector_running, main_pc, heard, gui>>
    /\ UNCHANGED <<qtVars, configVars, threadVars, toolsVars, brainVars>>

\* WakeWordDetector.start called by a direct user of the detector
DetectorStart ==
    /\ driver = "wake_word"
    /\ \E t \in Threads :
          /\ wake_pc[t] = "off"
          /\ \A t2 \in Threads : t2 < t => wake_pc[t2] # "off"
          /\ IF detector_running
             THEN UNCHANGED <<detector_running, wake_pc>>
             ELSE /\ detector_running' = TRUE
                  /\ wake_pc' = [wake_pc EXCEPT ![t] = "detect"]
    /\ UNCHANGED <<running, main_pc, heard, gui>>
    /\ UNCHANGED <<qtVars, configVars, threadVars, toolsVars, brainVars>>

\* WakeWordDetector.stop called by a direct user of the detector: join gives
\* up after 2 s, so stop returns whether or not the thread has ended
DetectorStop ==
    /\ driver = "wake_word"
    /\ detector_running' = detector_stop(detector_running)
    /\ UNCHANGED <<running, main_pc, wake_pc, heard, gui>>
    /\ UNCHANGED <<qtVars, configVars, threadVars, toolsVars, brainVars>>

\* the body of the detection loop of a stand-alone detector finishes one
\* round: listen timed out, nothing understood, or the callback returned
DetectorRound(t) ==
    /\ driver = "wake_word"
    /\ wake_pc[t] = "listen"
    /\ wake_pc' = [wake_pc EXCEPT ![t] = "detect"]
    /\ UNCHANGED <<running, detector_running, main_pc, heard, gui>>
    /\ UNCHANGED <<qtVars, configVars, threadVars, toolsVars, brainVars>>

Next ==
    \/ \E u \in UserInputs : Recognize(u)
    \/ OnSpeechRecognized
    \/ Run
    \/ MainLoop
    \/ \E w \in {MainThread, WakeThread}, h \in Heard : ListenReturns(w, h)
    \/ MainSleepExit
    \/ \E t \in Threads : DetectorLoop(t)
    \/ DetectorStart
    \/ DetectorStop
    \/ \E t \in Threads : DetectorRound(t)
    \/ \E n \in ToolNames : RegisterTool(n)
    \/ FinishInitialization
    \/ \E t \in Threads, u \in UserInputs : GetResponseCall(t, u)
    \/ \E t \in Threads, rw \in GeminiResponses \cup ChatResponses
              \cup {[kind |-> "no_client"], [kind |-> "not_configured"]} :
          GetResponseReturn(t, rw)
    \/ ClearHistory
    \/ \E a \in ConfirmArgs : ShutdownSystem(a)
    \/ \E a \in ConfirmArgs : RestartSystem(a)

Spec == Init /\ [][Next]_vars

\* The voice assistant of main.py alone, with its threads scheduled: the main
\* thread is not starved at the test of `while self.running` of either loop
\* (time.sleep(0.5) returns).
InitAssistant == Init /\ driver = "main"

NextAssistant ==
    \/ Run
    \/ MainLoop
    \/ \E w \in {MainThread, WakeThread}, h \in Heard : ListenReturns(w, h)
    \/ MainSleepExit
    \/ \E t \in Threads : DetectorLoop(t)
    \/ \E t \in Threads, u \in UserInputs : GetResponseCall(t, u)
    \/ \E t \in Threads, rw \in GeminiResponses \cup ChatResponses
              \cup {[kind |-> "no_client"], [kind |-> "not_configured"]} :
          GetResponseReturn(t, rw)

SpecAssistant ==
    /\ InitAssistant
    /\ [][NextAssistant]_vars
    /\ WF_vars(MainLoop)
    /\ WF_vars(MainSleepExit)

\* ------------------------------------------------------- properties ----
FrontEnds == {"main", "text_mode", "gui_window", "main_qt"}

\* thread t returns from get_response in this step
Returning(t) == pc[t] = "in_call" /\ pc'[t] = "idle"

\* thread t's last call has returned and nothing has touched the brain since
JustReturned(t) == pc[t] = "idle" /\ raw[t] # NoRaw /\ last_op = "get_response" /\ AllIdle

\* the n most recent messages of h, in their order
LastN(h, n) == [i \in 1..n |-> h[Len(h) - n + i]]

ToolFailed(rw, tf) ==
    rw.kind = "function_call" /\ (rw.name \notin tf \/ rw.ex = "raise")

IsFailure(rw, tf) ==
    \/ rw.kind \in {"no_client", "raise", "malformed", "empty", "not_configured"}
    \/ ToolFailed(rw, tf)

Apology(rw, tf) ==
    IF rw.name \in tf THEN FailedToolText(rw.name) ELSE UnknownToolText(rw.name)

CountRole(h, role) == Cardinality({i \in DOMAIN h : h[i].role = role})

\* C1: get_response never raises to its caller: whatever the provider and
\* the executor do (send raising, malformed response, executor raising,
\* provider never initialized), the call returns a reply of type text or
\* tool_call, and every failure outcome is a reply of type text.
C1_NeverRaises ==
    [][\A t \in Threads : Returning(t) =>
          /\ ~reply'[t].exc
          /\ reply'[t].type \in {"text", "tool_call"}
          /\ (IsFailure(raw'[t], tool_functions) => reply'[t].type = "text")]_vars

\* a call whose provider send raised has returned the generic fallback text
C1_Witness ==
    \E t \in Threads :
        /\ JustReturned(t)
        /\ raw[t].kind = "raise"
        /\ reply[t] = Return("text", FallbackText)

\* C2: after each get_response call returns, whatever its outcome, the
\* stored history has length at most maxHistory + 1 (maxHistory >= 1, brain
\* initialized at most once).
C2_HistoryBound ==
    (/\ last_op = "get_response"
     /\ AllIdle
     /\ MAX_HISTORY_LENGTH >= 1
     /\ init_called <= 1)
        => Len(conversation_history) <= MAX_HISTORY_LENGTH + 1

\* C3: in every front end, whenever the history is non-empty its first
\* element is the system message.
C3_SystemMessageFirst ==
    (driver \in FrontEnds /\ conversation_history # <<>>)
        => conversation_history[1] = SystemMessage

\* C4 (as stated): after a failed tool attempt (unknown tool, or executor
\* raising) the history is the history before the call plus the one user
\* message, trimmed, with no assistant message added.
C4_FailedToolOnlyUserMessage ==
    [][\A t \in Threads :
          (Returning(t) /\ ToolFailed(raw'[t], tool_functions)) =>
              conversation_history' =
                  _trim_history(Append(before[t], UserMessage(user_input[t])),
                                MAX_HISTORY_LENGTH)]_vars

\* C4 (amended): after a failed tool attempt the reply is the apology text
\* naming the tool, and the history is the history before the call plus the
\* user message plus one assistant message carrying that apology, trimmed.
C4_FailedToolAppendsApology ==
    [][\A t \in Threads :
          (Returning(t) /\ ToolFailed(raw'[t], tool_functions)) =>
              /\ reply'[t] = Return("text", Apology(raw'[t], tool_functions))
              /\ conversation_history' =
                     _trim_history(before[t] \o
                         <<UserMessage(user_input[t]),
                           AssistantMessage(Apology(raw'[t], tool_functions))>>,
                         MAX_HISTORY_LENGTH)
              /\ conversation_history'[Len(conversation_history')].role = "assistant"]_vars

\* a registered tool's executor raised and the call has returned
C4_Witness ==
    \E t \in Threads :
        /\ JustReturned(t)
        /\ raw[t].kind = "function_call"
        /\ raw[t].name \in tool_functions
        /\ raw[t].ex = "raise"
        /\ reply[t].content = FailedToolText(raw[t].name)

\* C5: when the provider requests a registered tool and its executor returns
\* r, get_response returns {type: tool_call, content: r}; the reply is not
\* appended as an assistant message: the only append of the turn is the user
\* message (followed by the trim step).
C5_ToolSuccess ==
    [][\A t \in Threads :
          (/\ Returning(t)
           /\ raw'[t].kind = "function_call"
           /\ raw'[t].name \in tool_functions
           /\ raw'[t].ex = "return") =>
              /\ reply'[t] = Return("tool_call", raw'[t].result)
              /\ conversation_history' =
                     _trim_history(Append(before[t], UserMessage(user_input[t])),
                                   MAX_HISTORY_LENGTH)
              /\ CountRole(conversation_history', "assistant")
                     <= CountRole(before[t], "assistant")
              /\ conversation_history'[Len(conversation_history')]
                     = UserMessage(user_input[t])]_vars

\* a registered tool was requested, ran and returned
C5_Witness ==
    \E t \in Threads :
        /\ JustReturned(t)
        /\ raw[t].kind = "function_call"
        /\ raw[t].name \in tool_functions
        /\ raw[t].ex = "return"
        /\ reply[t].type = "tool_call"

\* the two messages of a plain-text turn are the last two entries, and
\* everything before them was already there
TwoNewMessages(t) ==
    LET h == conversation_history'
    IN  /\ reply'[t] = Return("text", raw'[t].text)
        /\ Len(h) >= 2
        /\ h[Len(h) - 1] = UserMessage(user_input[t])
        /\ h[Len(h)] = AssistantMessage(raw'[t].text)
        /\ Len(h) <= Len(before[t]) + 2
        /\ \A i \in 1..(Len(h) - 2) : \E j \in DOMAIN before[t] : before[t][j] = h[i]

\* C6 (as stated): for every maxHistory >= 1, a turn answered with final
\* text t returns {text, t} and leaves (user, u), (assistant, t) as the last
\* two entries of the history.
C6_PlainTextTurn ==
    [][\A t \in Threads :
          (Returning(t) /\ raw'[t].kind = "text" /\ MAX_HISTORY_LENGTH >= 1)
              => TwoNewMessages(t)]_vars

\* C6 (amended): the same for every maxHistory >= 2.
C6_PlainTextTurnFromTwo ==
    [][\A t \in Threads :
          (Returning(t) /\ raw'[t].kind = "text" /\ MAX_HISTORY_LENGTH >= 2)
              => TwoNewMessages(t)]_vars

\* a plain-text turn on a full history (older messages were evicted)
C6_Witness ==
    \E t \in Threads :
        /\ JustReturned(t)
        /\ MAX_HISTORY_LENGTH >= 2
        /\ raw[t].kind = "text"
        /\ turns >= 2
        /\ conversation_history[1] = SystemMessage
        /\ Len(conversation_history) = MAX_HISTORY_LENGTH + 1

\* the history get_response hands to _trim_history when thread t returns
\* without an exception
PreTrim(t) ==
    IF reply'[t].type = "text"
    THEN Append(conversation_history, AssistantMessage(reply'[t].content))
    ELSE conversation_history

\* C7: trimming (maxHistory >= 1, the configuration domain of the spec): a
\* history longer than maxHistory + 1 becomes its element at index 0 followed
\* by its most recent maxHistory messages in order; a history of at most
\* maxHistory + 1 messages is unchanged.
C7_Trimming ==
    [][\A t \in Threads :
          (/\ Returning(t)
           /\ raw'[t].kind \notin RaisingKinds
           /\ MAX_HISTORY_LENGTH >= 1) =>
              LET h == PreTrim(t)
                  M == MAX_HISTORY_LENGTH
              IN  conversation_history' =
                      IF Len(h) > M + 1 THEN <<h[1]>> \o LastN(h, M) ELSE h]_vars

\* a call has returned whose trim step discarded older messages
C7_Witness ==
    \E t \in Threads :
        /\ JustReturned(t)
        /\ MAX_HISTORY_LENGTH >= 1
        /\ raw[t].kind \notin RaisingKinds
        /\ turns >= 2
        /\ conversation_history[1] = SystemMessage
        /\ Len(conversation_history) = MAX_HISTORY_LENGTH + 1
        /\ reply[t].type = "tool_call"

\* C8: in every front end at most one thread is inside get_response.
C8_SingleDriver ==
    driver \in FrontEnds
        => Cardinality({t \in Threads : pc[t] = "in_call"}) <= 1

\* C9: shutdown_system and restart_system called with the confirmation
\* false or absent return the cancellation message and issue no OS command.
C9_DestructiveGuard ==
    (/\ tool_call.name \in {"shutdown_system", "restart_system"}
     /\ tool_call.confirm \in {"false", "absent"})
        => /\ tool_call.issued = <<>>
           /\ tool_call.result \in {<<"Shutdown cancelled.">>, <<"Restart cancelled.">>}

\* C10: with the Gemini provider, once clear_history has returned the remote
\* chat session is a fresh one, and at every later moment the session's
\* context holds only messages sent after the last reset.
C10_ResetReestablishesSession ==
    provider = "gemini" =>
        /\ (last_op = "clear_history" /\ ~raised) => chat_session = NewSession
        /\ \A i \in DOMAIN chat_session.history :
               chat_session.history[i].epoch = epoch

\* a turn was sent to the remote session, then clear_history returned
C10_Witness ==
    /\ provider = "gemini"
    /\ last_op = "clear_history"
    /\ ~raised
    /\ raw[1].kind = "text"
    /\ chat_session = NewSession

\* this step is a clear_history call
Clearing == epoch' = epoch + 1

C12_UnknownTool ==
    [][\A t \in Threads :
          (/\ Returning(t)
           /\ raw'[t].kind = "function_call"
           /\ raw'[t].name \notin tool_functions) =>
              /\ reply'[t] = Return("text", UnknownToolText(raw'[t].name))
              /\ ~reply'[t].exc
              /\ executed'[t] = <<>>]_vars

\* an unregistered tool was requested while another tool is registered
C12_Witness ==
    \E t \in Threads :
        /\ JustReturned(t)
        /\ raw[t].kind = "function_call"
        /\ raw[t].name \notin tool_functions
        /\ tool_functions # {}
        /\ reply[t].content = UnknownToolText(raw[t].name)
        /\ executed[t] = <<>>

\* C13: when a registered tool X is requested and its executor raises,
\* get_response returns the text reply "I failed to use the tool X." and the
\* exception does not leave get_response.
C13_ExecutorFailure ==
    [][\A t \in Threads :
          (/\ Returning(t)
           /\ raw'[t].kind = "function_call"
           /\ raw'[t].name \in tool_functions
           /\ raw'[t].ex = "raise") =>
              /\ reply'[t] = Return("text", FailedToolText(raw'[t].name))
              /\ ~reply'[t].exc
              /\ executed'[t] = <<raw'[t].name>>]_vars

\* a registered executor was invoked, raised, and the call returned
C13_Witness ==
    \E t \in Threads :
        /\ JustReturned(t)
        /\ raw[t].kind = "function_call"
        /\ raw[t].ex = "raise"
        /\ executed[t] = <<raw[t].name>>
        /\ reply[t] = Return("text", FailedToolText(raw[t].name))

\* C14: a provider response without any content ends the turn with the text
\* reply "I apologize, I could not generate a response."; it is not an
\* exception and not the generic fallback text.
C14_EmptyResponse ==
    [][\A t \in Threads :
          (Returning(t) /\ raw'[t].kind = "empty") =>
              /\ reply'[t] = Return("text", NoResponseText)
              /\ ~reply'[t].exc
              /\ reply'[t].content # FallbackText]_vars

\* the provider answered without content and the call returned
C14_Witness ==
    \E t \in Threads :
        /\ JustReturned(t)
        /\ raw[t].kind = "empty"
        /\ reply[t] = Return("text", NoResponseText)

\* C20: within one get_response call the provider's send is invoked at most
\* once and at most one executor is invoked, at most once; a turn that fails
\* is not retried.
C20_NoRetry ==
    [][\A t \in Threads : Returning(t) =>
          /\ sends'[t] <= 1
          /\ Len(executed'[t]) <= 1
          /\ (IsFailure(raw'[t], tool_functions) /\ sends'[t] = 1)
                 => raw'[t].kind \notin {"no_client", "not_configured"}]_vars

\* a turn whose send raised has returned after that one send
C20_Witness ==
    \E t \in Threads :
        /\ JustReturned(t)
        /\ raw[t].kind = "raise"
        /\ sends[t] = 1
        /\ executed[t] = <<>>
        /\ reply[t].content = FallbackText

\* C15: when provider initialization fails the error reaches the caller of
\* finish_initialization, and the front end does not go on to serve
\* conversation turns without a usable provider.
C15_InitFailureIsFatal ==
    (/\ driver \in FrontEnds
     /\ init_called >= 1
     /\ ~InitSucceeds(provider, pkg_ok))
        => turns = 0

\* C16: in every entry point, with an invalid provider identifier or a
\* missing credential no get_response call is attempted.
C16_ConfigErrorsAreFatal ==
    (driver \in FrontEnds /\ validate_config(provider, api_key) # {})
        => turns = 0

\* C18: at every moment after the tool-calling provider was initialized, the
\* tools advertised to the remote model are the tools the registry resolves.
C18_AdvertisedEqualsRegistered ==
    (provider = "gemini" /\ chat_session.open)
        => advertised = tool_functions

\* C19: register_tool rejects a name that is not a non-empty string: the
\* registry never holds the empty name.
C19_EmptyNameRejected ==
    EmptyName \notin tool_functions

\* C17: in wake-word mode the main loop never calls listen or get_response;
\* every such call is made by the wake-word thread's callback.
C17_WakeWordExclusion ==
    (driver = "main" /\ wake_word_mode)
        => /\ main_pc \notin {"listen", "heard", "in_call"}
           /\ pc[MainThread] = "idle"

C17_Witness ==
    /\ driver = "main"
    /\ wake_word_mode
    /\ main_pc = "sleep"
    /\ pc[WakeThread] = "in_call"

\* position in h of its k-th message that is not a system message
NthNonSystem(h, k) ==
    CHOOSE i \in DOMAIN h :
        /\ h[i].role # "system"
        /\ Cardinality({j \in 1..i : h[j].role # "system"}) = k

\* C21: on every call the plain chat provider is sent the entire stored
\* history as role+content pairs in order, ending with the current user
\* message; the local-model provider is sent the same sequence without its
\* system-role messages, order preserved; both return a reply of type text.
C21_ProviderPayload ==
    [][\A t \in Threads :
          (Returning(t) /\ provider \in {"openai", "ollama"}) =>
              LET full == Append(before[t], UserMessage(user_input[t]))
                  sent == payload[t]
              IN  /\ reply'[t].type = "text"
                  /\ (provider = "openai" /\ client) =>
                         /\ sent = full
                         /\ sent[Len(sent)] = UserMessage(user_input[t])
                  /\ (provider = "ollama" /\ client) =>
                         /\ \A i \in DOMAIN sent : sent[i].role # "system"
                         /\ Len(sent) = Len(full) - CountRole(full, "system")
                         /\ \A k \in DOMAIN sent : sent[k] = full[NthNonSystem(full, k)]
                         /\ sent[Len(sent)] = UserMessage(user_input[t])]_vars

\* the local-model provider is being sent a history that holds the system
\* message and an earlier turn
C21_Witness ==
    /\ provider = "ollama"
    /\ pc[1] = "in_call"
    /\ Len(before[1]) >= 3
    /\ before[1][1] = SystemMessage
    /\ Len(payload[1]) = Len(before[1])

\* thread t enters get_response in this step: its driver accepted an input
Entering(t) == pc[t] = "idle" /\ pc'[t] = "in_call"

\* C22: in each session driver every reply returned by get_response is pushed
\* to the user before the driver accepts the next input.
C22_EveryReplySurfaced ==
    [][\A t \in Threads :
          (driver \in FrontEnds /\ Entering(t)) =>
              \A t2 \in Threads \ {t} :
                  /\ pc[t2] = "idle"
                  /\ raw[t2] # NoRaw => spoken[t2] = <<reply[t2].content>>]_vars

\* C23: when get_response returns the generic fallback text because the
\* provider call raised, the only change the call made to the history is the
\* appended user message: no assistant message, no trimming.
C23_FallbackFrame ==
    [][\A t \in Threads :
          (Returning(t) /\ raw'[t].kind \in RaisingKinds) =>
              /\ reply'[t] = Return("text", FallbackText)
              /\ conversation_history' = conversation_history
              /\ driver # "gui_window" =>
                     conversation_history' =
                         Append(before[t], UserMessage(user_input[t]))]_vars

\* a call fell back on a history that a trim step would have shortened
C23_Witness ==
    \E t \in Threads :
        /\ JustReturned(t)
        /\ raw[t].kind \in RaisingKinds
        /\ reply[t] = Return("text", FallbackText)
        /\ MAX_HISTORY_LENGTH >= 1
        /\ Len(conversation_history) > MAX_HISTORY_LENGTH + 1

\* threads inside the body of the detection loop: blocked in listen or
\* running the callback
InLoopBody == {t \in Threads : wake_pc[t] \in {"listen", "heard", "in_call"}}

\* C24: after any sequence of WakeWordDetector.start() and stop() calls no
\* two threads are inside the detection loop at the same time.
C24_OneDetectionThread ==
    Cardinality(InLoopBody) <= 1

\* the input texts of a sequence of emitted signals
InputsOf(sigs) == [i \in DOMAIN sigs |-> sigs[i].input]

\* the text process_text is working on
InProcess == IF pc[1] = "in_call" THEN <<user_input[1]>> ELSE <<>>

\* C25: in the Qt front end the recognised texts reach the brain worker one
\* at a time in the order they were emitted, also when a text is recognised
\* while a previous get_response is running; the responses are emitted in the
\* order of their inputs and no input is dropped.
C25_QueueOrder ==
    driver = "main_qt" =>
        /\ InputsOf(emitted) \o InProcess \o brain_queue \o ui_queue = recognized
        /\ Cardinality({t \in Threads : pc[t] = "in_call"}) <= 1

\* two texts were recognised while an earlier one was still being processed,
\* and an answer has already been emitted
C25_Witness ==
    /\ driver = "main_qt"
    /\ Len(emitted) >= 1
    /\ pc[1] = "in_call"
    /\ brain_queue # <<>>
    /\ user_input[1] # brain_queue[1]

\* C26: WorkerBrain.process_text emits exactly one signal per input text,
\* signal_response_ready or signal_error, also when the brain failed to
\* initialize in the constructor.
C26_OneSignalPerInput ==
    [][(driver = "main_qt" /\ Returning(1)) =>
          /\ Len(emitted') = Len(emitted) + 1
          /\ SubSeq(emitted', 1, Len(emitted)) = emitted
          /\ emitted'[Len(emitted')].input = user_input[1]
          /\ emitted'[Len(emitted')].signal
                 \in {"signal_response_ready", "signal_error"}]_vars

\* a text was answered by a worker whose brain failed to initialize
C26_Witness ==
    /\ driver = "main_qt"
    /\ ~InitSucceeds(provider, pkg_ok)
    /\ JustReturned(1)
    /\ Len(emitted) = turns
    /\ emitted[Len(emitted)].signal = "signal_response_ready"
    /\ emitted[Len(emitted)].text = FallbackText

\* C27: once finish_initialization has succeeded the history holds exactly
\* one system-role message, after any sequence of finish_initialization,
\* get_response and clear_history calls.
C27_OneSystemMessage ==
    (init_called >= 1 /\ InitSucceeds(provider, pkg_ok))
        => CountRole(conversation_history, "system") = 1

\* C28: for every MAX_HISTORY_LENGTH that Config accepts, 0 and 1 included,
\* _trim_history never makes the history longer and never duplicates the
\* message at index 0.
C28_TrimNeverGrows ==
    [][\A t \in Threads :
          (Returning(t) /\ raw'[t].kind \notin RaisingKinds) =>
              LET h == PreTrim(t)
              IN  /\ Len(conversation_history') <= Len(h)
                  /\ Cardinality({i \in DOMAIN conversation_history' :
                                     conversation_history'[i] = h[1]})
                         <= Cardinality({i \in DOMAIN h : h[i] = h[1]})]_vars

\* a listen of ZenAssistant returns in this step
ListenReturning ==
    \/ main_pc = "listen" /\ main_pc' # "listen"
    \/ wake_pc[WakeThread] = "listen" /\ wake_pc'[WakeThread] # "listen"

\* C29: when the keyword check of process_input handles the input (exit,
\* open, time, search, system info), get_response is not called for it and
\* the conversation history is left unchanged.
C29_KeywordBypass ==
    [][(driver = "main" /\ ListenReturning /\ heard' \in {"exit", "keyword"}) =>
          /\ conversation_history' = conversation_history
          /\ turns' = turns
          /\ main_pc' \notin {"heard", "in_call"}
          /\ wake_pc'[WakeThread] \notin {"heard", "in_call"}
          /\ pc' = pc]_vars

\* a keyword command was handled after a turn had filled the history
C29_Witness ==
    /\ driver = "main"
    /\ heard = "keyword"
    /\ main_pc = "loop"
    /\ turns >= 1
    /\ conversation_history # <<>>

\* C30: once an exit keyword command has been handled (running is false
\* again), ZenAssistant.run eventually returns, in normal and in wake-word
\* mode, with the wake-word detector stopped if one was started and the GUI
\* stopped if there is one.
C30_ExitTerminates ==
    (main_pc # "new" /\ ~running)
        ~> (main_pc = "done" /\ ~detector_running /\ gui # "started")

\* run has returned in wake-word mode after an exit command, GUI stopped
C30_Witness ==
    /\ wake_word_mode
    /\ heard = "exit"
    /\ ~running
    /\ main_pc = "done"
    /\ ~detector_running
    /\ gui = "stopped"
====
